---- MODULE Spec2Model ----
(***************************************************************************)
(* The session orchestrator of the AI-DM front end: the Pinia store        *)
(* frontend/src/stores/gameStore.ts (its last, streaming version, lines    *)
(* 222-416), the API client frontend/src/services/apiService.ts, the       *)
(* controller ChatWindow.vue and the root component App.vue.               *)
(*                                                                         *)
(* JavaScript runs one handler at a time; a handler runs until it awaits   *)
(* a network response or returns.  One action of this module is one such   *)
(* run: the synchronous part of a user action, the continuation of an      *)
(* async function after its await, or a timer callback.  Texts are         *)
(* sequences of tokens, so that `+=` is concatenation.                     *)
(***************************************************************************)
EXTENDS Integers, Sequences, FiniteSets, TLC

\* ------------------------------------------------------------- bounds
MaxInputs   == 2   \* user inputs the controller forwards
MaxRetries  == 1   \* clicks on the error overlay's retry button
MaxRuns     == 2   \* runs of pollForGameReady
MaxInFlight == 2   \* readiness queries of one run awaiting their response
MaxEvents   == 2   \* events delivered on the gameplay streams, all together

\* ------------------------------------------------- program constants
PollIntervalMs == 1000
PollTimeoutMs  == 20000
TimeoutTicks   == PollTimeoutMs \div PollIntervalMs

NoSession == 0          \* sessionId: null
NoError   == "null"     \* error: null

\* The literals of the store, in the order of the source.
WELCOME         == <<"welcome">>
SYS_WORLD_START == <<"sys:world-start">>
WORLD_GREETING  == <<"greet:world">>
SYS_WORLD_DONE  == <<"sys:world-done">>
SYS_CHAR_START  == <<"sys:char-start">>
CHAR_GREETING   == <<"greet:char">>
SYS_CHAR_DONE   == <<"sys:char-done">>
SYS_READY       == <<"sys:ready">>
START_TRIGGER   == <<"start">>
DONE_SENTINEL   == "[DONE]"

ERR_INIT        == "Failed to initialize session"
ERR_WORLD       == "Failed to start world creation"
ERR_CHAR        == "Failed to start character creation"
ERR_PROCESS     == "Failed to process input"
ERR_STREAM      == "stream error"
ERR_CANNOT_VERIFY == "cannot verify readiness"
ERR_TIMEOUT     == "readiness timeout"

\* The fallbacks of the API client, used when an error body has no detail.
FB_CREATE       == "createSession failed"
FB_STATUS       == "getSessionStatus failed"
FB_WORLD        == "process world-builder failed"
FB_CHAR         == "process character-manager failed"

\* What the environment supplies.
DETAIL          == "detail"            \* the detail field of an error body
FETCH_FAILED    == "Failed to fetch"   \* the message of a rejected fetch
STREAM_CONNECT  == "Failed to connect in event-stream mode"

Phases == <<"INIT", "WORLD_CREATION", "CHARACTER_CREATION", "GAMEPLAY", "GAME_OVER">>

\* Keyboard input: what the user may have typed into the input box.
UserTexts == {<<>>, <<" ">>, <<"hello">>}

\* Bodies of a successful agent response: one of an unfinished form, one of
\* a finished form, with different updated_state.
AgentBodies   ==
    {[response |-> <<"reply">>, is_complete |-> FALSE,
      updated_state |-> {<<"geography", "forest">>}],
     [response |-> <<"reply">>, is_complete |-> TRUE,
      updated_state |-> {<<"name", "Eldoria">>}]}

\* A request that does not succeed: a non-success status whose body has a
\* detail or none, or a rejected fetch.
Failures == {[kind |-> "http", detail |-> DETAIL],
             [kind |-> "http", detail |-> ""],
             [kind |-> "network", detail |-> ""]}

\* Narration fragments of a gameplay stream.
Chunks == {"Hello, "}

VARIABLES
    sessionId, gamePhase, isInitializing, isReplying, error, messages,
    worldState, characterState, isWorldCreated, isCharacterCreated,
    calls,      \* createSession / processAgentInput requests awaiting their response
    nreq,       \* createSession, agent and stream requests issued so far
    streams,    \* the gameplay streams opened so far, in order
    runs,       \* the runs of pollForGameReady started so far, in order
    clock,      \* Date.now()
    mounted,    \* App.vue's onMounted has run
    inputs,     \* user inputs forwarded so far
    retries     \* retry clicks so far

store == <<sessionId, gamePhase, isInitializing, isReplying, error, messages,
           worldState, characterState, isWorldCreated, isCharacterCreated>>
vars  == <<store, calls, nreq, streams, runs, clock, mounted, inputs, retries>>

\* The store and its surroundings as one value, for the handlers to transform.
World ==
    [sessionId |-> sessionId, gamePhase |-> gamePhase,
     isInitializing |-> isInitializing, isReplying |-> isReplying,
     error |-> error, messages |-> messages,
     worldState |-> worldState, characterState |-> characterState,
     isWorldCreated |-> isWorldCreated, isCharacterCreated |-> isCharacterCreated,
     calls |-> calls, nreq |-> nreq, streams |-> streams, runs |-> runs,
     now |-> clock]

Commit(w) ==
    /\ sessionId' = w.sessionId
    /\ gamePhase' = w.gamePhase
    /\ isInitializing' = w.isInitializing
    /\ isReplying' = w.isReplying
    /\ error' = w.error
    /\ messages' = w.messages
    /\ worldState' = w.worldState
    /\ characterState' = w.characterState
    /\ isWorldCreated' = w.isWorldCreated
    /\ isCharacterCreated' = w.isCharacterCreated
    /\ calls' = w.calls
    /\ nreq' = w.nreq
    /\ streams' = w.streams
    /\ runs' = w.runs
    /\ clock' = IF Len(w.messages) # Len(messages) THEN clock + 1 ELSE clock

\* ------------------------------------------------------------ helpers
\* a || b on strings
OrElse(a, b) == IF a # "" THEN a ELSE b

\* String.prototype.trim on a text whose tokens are characters or words
RECURSIVE TrimLeft(_)
TrimLeft(t) == IF t # <<>> /\ Head(t) = " " THEN TrimLeft(Tail(t)) ELSE t
RECURSIVE TrimRight(_)
TrimRight(t) ==
    IF t # <<>> /\ t[Len(t)] = " " THEN TrimRight(SubSeq(t, 1, Len(t) - 1)) ELSE t
trim(t) == TrimRight(TrimLeft(t))

\* The message of the Error a failed request throws: the API client's
\* `throw new Error(errorData.detail || fallback)`, or fetch's own rejection.
ThrownMessage(f, fallback) ==
    IF f.kind = "network" THEN FETCH_FAILED ELSE OrElse(f.detail, fallback)

ProcessFallback(agentType) == IF agentType = "world-builder" THEN FB_WORLD ELSE FB_CHAR

\* A request handed to fetch: it is in flight until its response is handled.
\* phase and entry are gamePhase and the length of the timeline when it was
\* issued.
Issue(w, op, agentType, userInput) ==
    [w EXCEPT !.calls = @ \cup {[id |-> w.nreq + 1, op |-> op, agent |-> agentType,
                                 input |-> userInput, phase |-> w.gamePhase,
                                 entry |-> Len(w.messages)]},
              !.nreq = @ + 1]

Settle(w, c) == [w EXCEPT !.calls = @ \ {c}]

\* ------------------------------------------------------ store actions
addMessage(w, text, sender) ==
    [w EXCEPT !.messages = Append(@, [id |-> w.now, text |-> text, sender |-> sender])]

\* A run of pollForGameReady: its two timers, the time since it started, the
\* queries awaiting a response, and what the run has done so far.
\* Time is measured in interval units and is not counted up to TimeoutTicks:
\* age is "started" until the first unit has passed, "running" from the first
\* tick on, "timeout" during the unit in which the setTimeout callback is due
\* and "past" afterwards.  A behaviour with fewer than TimeoutTicks units
\* before the timeout extends to one with TimeoutTicks units by ticks whose
\* query answers ready_for_game = false, which change nothing in the store.
\* log lists the branches of the run in the order they ran: "ready",
\* "failed", "timeoutErr" when the timeout callback wrote error, "timeout"
\* when it only cleared the interval, "skip" when it found GAMEPLAY, and
\* "query" for queries issued after one of these.  readyAt is the age at
\* which the ready branch first ran; timeoutClean says that error was unset
\* when the timeout callback ran, timeoutPhase is gamePhase as it left it.
NewRun ==
    [interval |-> TRUE, timeout |-> TRUE, age |-> "started", due |-> FALSE,
     inflight |-> 0, log |-> <<>>, readyAt |-> "never",
     timeoutClean |-> FALSE, timeoutPhase |-> "none"]

\* (mutant) starting a poller run clears the world that was built
pollForGameReady_ResetsWorld(w) ==
    IF w.sessionId = NoSession THEN w
    ELSE [w EXCEPT !.runs = Append(@, NewRun), !.worldState = {}]

\* pollForGameReady up to the registration of its two timers
pollForGameReady(w) ==
    IF w.sessionId = NoSession THEN w
    ELSE [w EXCEPT !.runs = Append(@, NewRun)]

\* A gameplay stream: the session it belongs to, the index of its DM entry,
\* the state of the connection, the events delivered so far, how often onDone
\* was called, and the payloads delivered before the first [DONE].
NewStream(w, userInput) ==
    [session |-> w.sessionId, msg |-> Len(w.messages), input |-> userInput,
     status |-> "connecting", events |-> 0, dones |-> 0, before |-> <<>>,
     is_game_over |-> FALSE]

\* (mutant) the trigger literal is shown like any other input
sendPlayerInput_AlwaysPlayer(w, userInput) ==
    IF w.sessionId = NoSession THEN w
    ELSE LET w1 == addMessage(w, userInput, "Player")
             w2 == [w1 EXCEPT !.isReplying = TRUE,
                              !.messages = Append(@, [id |-> w.now, text |-> <<>>,
                                                      sender |-> "DM"])]
         IN  [w2 EXCEPT !.streams = Append(@, [session |-> w2.sessionId,
                                               msg |-> Len(w2.messages),
                                               input |-> userInput,
                                               status |-> "connecting", events |-> 0,
                                               dones |-> 0, before |-> <<>>,
                                               is_game_over |-> FALSE]),
                        !.nreq = @ + 1]

\* (mutant) the turn starts without pushing its DM entry
sendPlayerInput_NoEntry(w, userInput) ==
    IF w.sessionId = NoSession THEN w
    ELSE LET w1 == IF userInput # START_TRIGGER
                   THEN addMessage(w, userInput, "Player") ELSE w
             w2 == [w1 EXCEPT !.isReplying = TRUE]
         IN  [w2 EXCEPT !.streams = Append(@, NewStream(w2, userInput)),
                        !.nreq = @ + 1]

\* sendPlayerInput up to the await of streamPlayGame
sendPlayerInput(w, userInput) ==
    IF w.sessionId = NoSession THEN w
    ELSE LET w1 == IF userInput # START_TRIGGER
                   THEN addMessage(w, userInput, "Player") ELSE w
             w2 == [w1 EXCEPT !.isReplying = TRUE,
                              !.messages = Append(@, [id |-> w.now, text |-> <<>>,
                                                      sender |-> "DM"])]
         IN  [w2 EXCEPT !.streams = Append(@, NewStream(w2, userInput)),
                        !.nreq = @ + 1]

\* startWorldCreation up to its await
startWorldCreation(w) ==
    IF w.sessionId = NoSession THEN w
    ELSE LET w1 == addMessage([w EXCEPT !.gamePhase = "WORLD_CREATION"],
                              SYS_WORLD_START, "System")
         IN  Issue([w1 EXCEPT !.isReplying = TRUE],
                   "startWorldCreation", "world-builder", WORLD_GREETING)

\* (mutant) the phase changes, the opening dispatch is forgotten
startCharacterCreation_NoDispatch(w) ==
    IF w.sessionId = NoSession THEN w
    ELSE addMessage([w EXCEPT !.gamePhase = "CHARACTER_CREATION"],
                    SYS_CHAR_START, "System")

\* startCharacterCreation up to its await
startCharacterCreation(w) ==
    IF w.sessionId = NoSession THEN w
    ELSE LET w1 == addMessage([w EXCEPT !.gamePhase = "CHARACTER_CREATION"],
                              SYS_CHAR_START, "System")
         IN  Issue([w1 EXCEPT !.isReplying = TRUE],
                   "startCharacterCreation", "character-manager", CHAR_GREETING)

\* startWorldCreation after its await
startWorldCreationSettled(w, ok, body, f) ==
    LET w1 == IF ok THEN addMessage(w, body.response, "DM")
              ELSE [w EXCEPT !.error = OrElse(ThrownMessage(f, FB_WORLD), ERR_WORLD)]
    IN  [w1 EXCEPT !.isReplying = FALSE]

\* startCharacterCreation after its await
startCharacterCreationSettled(w, ok, body, f) ==
    LET w1 == IF ok THEN addMessage(w, body.response, "DM")
              ELSE [w EXCEPT !.error = OrElse(ThrownMessage(f, FB_CHAR), ERR_CHAR)]
    IN  [w1 EXCEPT !.isReplying = FALSE]

\* (mutant) a new attempt starts from the initial creation flags
initializeSession_ResetFlags(w) ==
    Issue([w EXCEPT !.isInitializing = TRUE, !.error = NoError,
                    !.isWorldCreated = FALSE, !.isCharacterCreated = FALSE],
          "initializeSession", "none", <<>>)

\* initializeSession up to its await
initializeSession(w) ==
    Issue([w EXCEPT !.isInitializing = TRUE, !.error = NoError],
          "initializeSession", "none", <<>>)

\* (mutant) a failed attempt leaves the loading overlay up
initializeSessionSettled_StaysInitializing(w, ok, session_id, f) ==
    IF ok
    THEN LET w1 == addMessage([w EXCEPT !.sessionId = session_id], WELCOME, "DM")
         IN  startWorldCreation([w1 EXCEPT !.isInitializing = FALSE])
    ELSE [w EXCEPT !.error = OrElse(ThrownMessage(f, FB_CREATE), ERR_INIT)]

\* initializeSession after createSession has settled
initializeSessionSettled(w, ok, session_id, f) ==
    IF ok
    THEN LET w1 == addMessage([w EXCEPT !.sessionId = session_id], WELCOME, "DM")
         IN  startWorldCreation([w1 EXCEPT !.isInitializing = FALSE])
    ELSE [w EXCEPT !.error = OrElse(ThrownMessage(f, FB_CREATE), ERR_INIT),
                   !.isInitializing = FALSE]

\* (mutant) the dispatch is made although there is no session
sendAgentMessage_NoGuard(w, userInput, agentType) ==
    Issue([addMessage(w, userInput, "Player") EXCEPT !.isReplying = TRUE],
          "sendAgentMessage", agentType, userInput)

\* sendAgentMessage up to its await
sendAgentMessage(w, userInput, agentType) ==
    IF w.sessionId = NoSession THEN w
    ELSE Issue([addMessage(w, userInput, "Player") EXCEPT !.isReplying = TRUE],
               "sendAgentMessage", agentType, userInput)

\* (mutant) the variant that enters GAMEPLAY as soon as the character is
\* complete, without waiting for the backend to be ready
sendAgentMessageSettled_Immediate(w, agentType, ok, body, f) ==
    LET w1 == addMessage(w, body.response, "DM")
        wb == LET w2 == [w1 EXCEPT !.worldState = body.updated_state]
              IN  IF body.is_complete
                  THEN startCharacterCreation(
                           addMessage([w2 EXCEPT !.isWorldCreated = TRUE],
                                      SYS_WORLD_DONE, "System"))
                  ELSE w2
        cm == LET w2 == [w1 EXCEPT !.characterState = body.updated_state]
              IN  IF body.is_complete
                  THEN sendPlayerInput(
                           addMessage([w2 EXCEPT !.isCharacterCreated = TRUE,
                                                 !.gamePhase = "GAMEPLAY"],
                                      SYS_CHAR_DONE, "System"), START_TRIGGER)
                  ELSE w2
        w3 == IF ~ok
              THEN [w EXCEPT !.error =
                        OrElse(ThrownMessage(f, ProcessFallback(agentType)), ERR_PROCESS)]
              ELSE IF agentType = "world-builder" THEN wb
              ELSE cm
    IN  [w3 EXCEPT !.isReplying = FALSE]

\* (mutant) updated_state is merged into the state instead of replacing it
sendAgentMessageSettled_Merge(w, agentType, ok, body, f) ==
    LET w1 == addMessage(w, body.response, "DM")
        wb == LET w2 == [w1 EXCEPT !.worldState = @ \cup body.updated_state]
              IN  IF body.is_complete
                  THEN startCharacterCreation(
                           addMessage([w2 EXCEPT !.isWorldCreated = TRUE],
                                      SYS_WORLD_DONE, "System"))
                  ELSE w2
        cm == LET w2 == [w1 EXCEPT !.characterState = @ \cup body.updated_state]
              IN  IF body.is_complete
                  THEN pollForGameReady(
                           addMessage([w2 EXCEPT !.isCharacterCreated = TRUE],
                                      SYS_CHAR_DONE, "System"))
                  ELSE w2
        w3 == IF ~ok
              THEN [w EXCEPT !.error =
                        OrElse(ThrownMessage(f, ProcessFallback(agentType)), ERR_PROCESS)]
              ELSE IF agentType = "world-builder" THEN wb
              ELSE cm
    IN  [w3 EXCEPT !.isReplying = FALSE]

\* sendAgentMessage after processAgentInput has settled
sendAgentMessageSettled(w, agentType, ok, body, f) ==
    LET w1 == addMessage(w, body.response, "DM")
        wb == LET w2 == [w1 EXCEPT !.worldState = body.updated_state]
              IN  IF body.is_complete
                  THEN startCharacterCreation(
                           addMessage([w2 EXCEPT !.isWorldCreated = TRUE],
                                      SYS_WORLD_DONE, "System"))
                  ELSE w2
        cm == LET w2 == [w1 EXCEPT !.characterState = body.updated_state]
              IN  IF body.is_complete
                  THEN pollForGameReady(
                           addMessage([w2 EXCEPT !.isCharacterCreated = TRUE],
                                      SYS_CHAR_DONE, "System"))
                  ELSE w2
        w3 == IF ~ok
              THEN [w EXCEPT !.error =
                        OrElse(ThrownMessage(f, ProcessFallback(agentType)), ERR_PROCESS)]
              ELSE IF agentType = "world-builder" THEN wb
              ELSE IF agentType = "character-manager" THEN cm
              ELSE w1
    IN  [w3 EXCEPT !.isReplying = FALSE]

\* (mutant) the controller forwards input although a reply is pending
sendMessage_NoBusyGate(w, text) ==
    IF trim(text) # <<>>
    THEN IF w.gamePhase = "WORLD_CREATION"
         THEN sendAgentMessage(w, text, "world-builder")
         ELSE IF w.gamePhase = "CHARACTER_CREATION"
         THEN sendAgentMessage(w, text, "character-manager")
         ELSE w
    ELSE w

\* (mutant) the controller falls back to the world builder in the other phases
sendMessage_AnyPhase(w, text) ==
    IF trim(text) # <<>> /\ ~w.isReplying
    THEN IF w.gamePhase = "CHARACTER_CREATION"
         THEN sendAgentMessage(w, text, "character-manager")
         ELSE sendAgentMessage(w, text, "world-builder")
    ELSE w

\* ChatWindow.vue: sendMessage, with userInput.value = text
sendMessage(w, text) ==
    IF trim(text) # <<>> /\ ~w.isReplying
    THEN IF w.gamePhase = "WORLD_CREATION"
         THEN sendAgentMessage(w, text, "world-builder")
         ELSE IF w.gamePhase = "CHARACTER_CREATION"
         THEN sendAgentMessage(w, text, "character-manager")
         ELSE w
    ELSE w

\* whether sendMessage empties the input box (userInput.value = '')
sendMessageConsumes(w, text) == trim(text) # <<>> /\ ~w.isReplying

\* ------------------------------------------------- pollForGameReady
Note(w, r, what) == [w EXCEPT !.runs[r].log = Append(@, what)]

clearInterval(w, r) == [w EXCEPT !.runs[r].interval = FALSE, !.runs[r].due = FALSE]

\* the setInterval callback of run r, up to its await
intervalCallback(w, r) ==
    LET w1 == [w EXCEPT !.runs[r].due = FALSE]
    IN  IF w1.sessionId = NoSession THEN clearInterval(w1, r)
        ELSE LET w2 == [w1 EXCEPT !.runs[r].inflight = @ + 1]
                 lg == w2.runs[r].log
             IN  IF lg # <<>> /\ lg[Len(lg)] # "query" THEN Note(w2, r, "query") ELSE w2

\* the setInterval callback of run r after getSessionStatus has settled
statusSettled(w, r, ok, ready_for_game) ==
    LET w1 == [w EXCEPT !.runs[r].inflight = @ - 1]
    IN  IF ok
        THEN IF ready_for_game
             THEN LET w2 == clearInterval(w1, r)
                      w3 == [w2 EXCEPT !.gamePhase = "GAMEPLAY",
                                       !.runs[r].readyAt =
                                           IF @ = "never" THEN w.runs[r].age ELSE @]
                      w4 == addMessage(w3, SYS_READY, "System")
                  IN  sendPlayerInput(Note(w4, r, "ready"), START_TRIGGER)
             ELSE w1
        ELSE clearInterval(Note([w1 EXCEPT !.error = ERR_CANNOT_VERIFY], r, "failed"), r)

\* the setTimeout callback of run r
timeoutCallback(w, r) ==
    LET w1 == [w EXCEPT !.runs[r].timeout = FALSE,
                        !.runs[r].timeoutPhase = w.gamePhase,
                        !.runs[r].timeoutClean =
                            w.error = NoError]
    IN  IF w1.gamePhase # "GAMEPLAY"
        THEN LET w2 == clearInterval(w1, r)
             IN  IF w2.error = NoError
                 THEN Note([w2 EXCEPT !.error = ERR_TIMEOUT], r, "timeoutErr")
                 ELSE Note(w2, r, "timeout")
        ELSE Note(w1, r, "skip")

\* A timer callback of run r is due and has not run yet.
IntervalDue(r) == runs[r].interval /\ runs[r].due
TimeoutDue(r)  == runs[r].timeout /\ runs[r].age = "timeout"

\* -------------------------------------------------- streamPlayGame
\* (mutant) the error is reported, the busy flag is left set
onError_KeepBusy(w, message) ==
    [w EXCEPT !.error = OrElse(message, ERR_STREAM)]

onError(w, message) ==
    [w EXCEPT !.error = OrElse(message, ERR_STREAM), !.isReplying = FALSE]

\* (mutant) a completed turn clears the reported error
onDone_ClearsError(w) == [w EXCEPT !.isReplying = FALSE, !.error = NoError]

onDone(w) == [w EXCEPT !.isReplying = FALSE]

onMessage(w, k, chunk) ==
    [w EXCEPT !.messages[w.streams[k].msg].text = @ \o <<chunk>>]

\* fetchEventSource hands every failure to onerror, which reports it and
\* rethrows; the rejection reaches the catch of streamPlayGame, which reports
\* it again.
streamFailed(w, k, message) ==
    [onError(onError(w, message), message) EXCEPT
        !.streams[k].status = "failed"]

\* onopen: the response must be ok and of content type text/event-stream
streamOpened(w, k, ok, eventStream) ==
    IF ok /\ eventStream THEN [w EXCEPT !.streams[k].status = "open"]
    ELSE streamFailed(w, k, STREAM_CONNECT)

\* onmessage
streamEvent(w, k, data, is_game_over) ==
    LET w1 == [w EXCEPT !.streams[k].events = @ + 1,
                        !.streams[k].is_game_over = @ \/ is_game_over]
    IN  IF data = DONE_SENTINEL
        THEN [onDone(w1) EXCEPT !.streams[k].dones = @ + 1]
        ELSE [onMessage(w1, k, data) EXCEPT
                 !.streams[k].before = IF w.streams[k].dones = 0
                                       THEN @ \o <<data>> ELSE @]

\* onclose: the connection ended without an error
streamClosed(w, k) == [w EXCEPT !.streams[k].status = "closed"]

\* ------------------------------------------------------------ actions
RECURSIVE TotalEvents(_)
TotalEvents(ss) == IF ss = <<>> THEN 0 ELSE Head(ss).events + TotalEvents(Tail(ss))

Init ==
    /\ sessionId = NoSession
    /\ gamePhase = "INIT"
    /\ isInitializing = FALSE
    /\ isReplying = FALSE
    /\ error = NoError
    /\ messages = <<>>
    /\ worldState = {}
    /\ characterState = {}
    /\ isWorldCreated = FALSE
    /\ isCharacterCreated = FALSE
    /\ calls = {}
    /\ nreq = 0
    /\ streams = <<>>
    /\ runs = <<>>
    /\ clock = 1
    /\ mounted = FALSE
    /\ inputs = 0
    /\ retries = 0

\* App.vue: onMounted
Mount ==
    /\ ~mounted
    /\ mounted' = TRUE
    /\ Commit(initializeSession(World))
    /\ UNCHANGED <<inputs, retries>>

\* App.vue: the retry button of the error overlay
Retry ==
    /\ mounted /\ ~isInitializing /\ error # NoError
    /\ retries < MaxRetries
    /\ retries' = retries + 1
    /\ Commit(initializeSession(World))
    /\ UNCHANGED <<mounted, inputs>>

\* createSession succeeds: the backend assigns a fresh session id
CreateSessionOk ==
    \E c \in calls :
        /\ c.op = "initializeSession"
        /\ Commit(initializeSessionSettled(Settle(World, c), TRUE, sessionId + 1,
                                           CHOOSE f \in Failures : TRUE))
        /\ UNCHANGED <<mounted, inputs, retries>>

\* createSession of call c throws the Error of failure f
CreateSessionRejects(c, f) ==
    /\ c \in calls
    /\ c.op = "initializeSession"
    /\ Commit(initializeSessionSettled(Settle(World, c), FALSE, NoSession, f))
    /\ UNCHANGED <<mounted, inputs, retries>>

CreateSessionFails == \E c \in calls, f \in Failures : CreateSessionRejects(c, f)

\* the opening dispatch c of a creation phase succeeds with body
OpeningSettles(c, body) ==
    /\ c \in calls
    /\ \/ /\ c.op = "startWorldCreation"
          /\ Commit(startWorldCreationSettled(Settle(World, c), TRUE, body, body))
       \/ /\ c.op = "startCharacterCreation"
          /\ Commit(startCharacterCreationSettled(Settle(World, c), TRUE, body, body))
    /\ UNCHANGED <<mounted, inputs, retries>>

OpeningOk == \E c \in calls, body \in AgentBodies : OpeningSettles(c, body)

\* the opening dispatch c throws the Error of failure f
OpeningRejects(c, f) ==
    /\ c \in calls
    /\ \/ /\ c.op = "startWorldCreation"
          /\ Commit(startWorldCreationSettled(Settle(World, c), FALSE, f, f))
       \/ /\ c.op = "startCharacterCreation"
          /\ Commit(startCharacterCreationSettled(Settle(World, c), FALSE, f, f))
    /\ UNCHANGED <<mounted, inputs, retries>>

OpeningFails == \E c \in calls, f \in Failures : OpeningRejects(c, f)

\* ChatWindow.vue is rendered only by the v-else branch of App.vue
ChatWindowShown == mounted /\ ~isInitializing /\ error = NoError

\* the user presses Enter or clicks the send button
SendMessage ==
    \E text \in UserTexts :
        /\ ChatWindowShown
        /\ inputs < MaxInputs
        /\ LET w == sendMessage(World, text)
           IN  /\ Commit(w)
               /\ inputs' = IF w.nreq # nreq THEN inputs + 1 ELSE inputs
        /\ UNCHANGED <<mounted, retries>>

\* processAgentInput of the sendAgentMessage call c succeeds with body
AgentSettles(c, body) ==
    /\ c \in calls
    /\ c.op = "sendAgentMessage"
    /\ (c.agent = "character-manager" /\ body.is_complete) => Len(runs) < MaxRuns
    /\ Commit(sendAgentMessageSettled(Settle(World, c), c.agent, TRUE, body, body))
    /\ UNCHANGED <<mounted, inputs, retries>>

AgentOk == \E c \in calls, body \in AgentBodies : AgentSettles(c, body)

\* processAgentInput of the sendAgentMessage call c throws
AgentRejects(c, f) ==
    /\ c \in calls
    /\ c.op = "sendAgentMessage"
    /\ Commit(sendAgentMessageSettled(Settle(World, c), c.agent, FALSE, f, f))
    /\ UNCHANGED <<mounted, inputs, retries>>

AgentFails == \E c \in calls, f \in Failures : AgentRejects(c, f)

\* One interval unit passes; timer callbacks that are due run first.  For the
\* runs in T it is the unit of their timeout.  Timers registered earlier are
\* due earlier: a run reaches its timeout no sooner than the runs before it.
Elapse ==
    \E T \in SUBSET {r \in DOMAIN runs : runs[r].age = "running"} :
        /\ \E r \in DOMAIN runs : runs[r].interval \/ runs[r].age # "past"
        /\ \A r \in DOMAIN runs : ~IntervalDue(r) /\ ~TimeoutDue(r)
        /\ \A r \in T : \A q \in 1..(r - 1) :
               q \in T \/ runs[q].age \in {"timeout", "past"}
        /\ TimeoutTicks <= 2 => T = {r \in DOMAIN runs : runs[r].age = "running"}
        /\ runs' = [r \in DOMAIN runs |->
               [runs[r] EXCEPT
                   !.age = CASE @ = "started" ->
                                    IF TimeoutTicks <= 1 THEN "timeout" ELSE "running"
                             [] @ = "running" -> IF r \in T THEN "timeout" ELSE "running"
                             [] OTHER -> "past",
                   !.due = runs[r].interval]]
        /\ UNCHANGED <<store, calls, nreq, streams, clock, mounted, inputs, retries>>

PollTick ==
    \E r \in DOMAIN runs :
        /\ IntervalDue(r)
        /\ sessionId # NoSession => runs[r].inflight < MaxInFlight
        /\ Commit(intervalCallback(World, r))
        /\ UNCHANGED <<mounted, inputs, retries>>

\* getSessionStatus answers ready_for_game = true
StatusReady ==
    \E r \in DOMAIN runs :
        /\ runs[r].inflight > 0
        /\ Commit(statusSettled(World, r, TRUE, TRUE))
        /\ UNCHANGED <<mounted, inputs, retries>>

\* getSessionStatus answers ready_for_game = false
StatusNotReady ==
    \E r \in DOMAIN runs :
        /\ runs[r].inflight > 0
        /\ Commit(statusSettled(World, r, TRUE, FALSE))
        /\ UNCHANGED <<mounted, inputs, retries>>

\* getSessionStatus of run r throws the Error of failure f; the catch of the
\* callback does not look at it
StatusRejects(r, f) ==
    /\ runs[r].inflight > 0
    /\ Commit(statusSettled(World, r, FALSE, FALSE))
    /\ UNCHANGED <<mounted, inputs, retries>>

StatusFails == \E r \in DOMAIN runs, f \in Failures : StatusRejects(r, f)

PollTimeout ==
    \E r \in DOMAIN runs :
        /\ TimeoutDue(r)
        /\ Commit(timeoutCallback(World, r))
        /\ UNCHANGED <<mounted, inputs, retries>>

StreamOpen ==
    \E k \in DOMAIN streams, ok \in BOOLEAN, eventStream \in BOOLEAN :
        /\ streams[k].status = "connecting"
        /\ Commit(streamOpened(World, k, ok, eventStream))
        /\ UNCHANGED <<mounted, inputs, retries>>

\* an event of the stream; the backend knows whether its turn ended the game
StreamEvent ==
    \E k \in DOMAIN streams, data \in Chunks \cup {DONE_SENTINEL},
       is_game_over \in BOOLEAN :
        /\ streams[k].status = "open"
        /\ is_game_over => data = DONE_SENTINEL
        /\ TotalEvents(streams) < MaxEvents
        /\ Commit(streamEvent(World, k, data, is_game_over))
        /\ UNCHANGED <<mounted, inputs, retries>>

StreamClose ==
    \E k \in DOMAIN streams :
        /\ streams[k].status = "open"
        /\ Commit(streamClosed(World, k))
        /\ UNCHANGED <<mounted, inputs, retries>>

StreamError ==
    \E k \in DOMAIN streams :
        /\ streams[k].status = "open"
        /\ Commit(streamFailed(World, k, FETCH_FAILED))
        /\ UNCHANGED <<mounted, inputs, retries>>

Next ==
    \/ Mount \/ Retry \/ CreateSessionOk \/ CreateSessionFails
    \/ OpeningOk \/ OpeningFails
    \/ SendMessage \/ AgentOk \/ AgentFails
    \/ Elapse \/ PollTick \/ StatusReady \/ StatusNotReady \/ StatusFails \/ PollTimeout
    \/ StreamOpen \/ StreamEvent \/ StreamClose \/ StreamError

Spec == Init /\ [][Next]_vars

\* ---------------------------------------------- the store's interface
\* The store and the controller as operations on a given state: the store
\* after a session was created (or before, in INIT), in each phase of the
\* type GamePhase, idle or busy, with the chat window shown.  A component
\* calls sendPlayerInput or the user submits input; the requests they issue
\* settle.
StoreInit ==
    /\ gamePhase \in {Phases[i] : i \in DOMAIN Phases}
    /\ sessionId = IF gamePhase = "INIT" THEN NoSession ELSE 1
    /\ isInitializing = FALSE
    /\ isReplying \in BOOLEAN
    /\ error = NoError
    /\ messages = IF gamePhase = "INIT" THEN <<>>
                  ELSE <<[id |-> 1, text |-> WELCOME, sender |-> "DM"]>>
    /\ worldState = {}
    /\ characterState = {}
    /\ isWorldCreated = FALSE
    /\ isCharacterCreated = FALSE
    /\ calls = {}
    /\ nreq = 0
    /\ streams = <<>>
    /\ runs = <<>>
    /\ clock = 2
    /\ mounted = TRUE
    /\ inputs = 0
    /\ retries = 0

\* a component calls the store's gameplay-turn action
CallSendPlayerInputWith(text) ==
    /\ inputs < MaxInputs
    /\ inputs' = inputs + 1
    /\ Commit(sendPlayerInput(World, text))
    /\ UNCHANGED <<mounted, retries>>

CallSendPlayerInput ==
    \E text \in UserTexts \cup {START_TRIGGER} : CallSendPlayerInputWith(text)

\* a component calls one of the other actions of the store
CallStartWorldCreation ==
    /\ inputs < MaxInputs
    /\ inputs' = inputs + 1
    /\ Commit(startWorldCreation(World))
    /\ UNCHANGED <<mounted, retries>>

CallStartCharacterCreation ==
    /\ inputs < MaxInputs
    /\ inputs' = inputs + 1
    /\ Commit(startCharacterCreation(World))
    /\ UNCHANGED <<mounted, retries>>

CallSendAgentMessage ==
    \E text \in UserTexts, agentType \in {"world-builder", "character-manager"} :
        /\ inputs < MaxInputs
        /\ inputs' = inputs + 1
        /\ Commit(sendAgentMessage(World, text, agentType))
        /\ UNCHANGED <<mounted, retries>>

CallPollForGameReady ==
    /\ inputs < MaxInputs
    /\ Len(runs) < MaxRuns
    /\ inputs' = inputs + 1
    /\ Commit(pollForGameReady(World))
    /\ UNCHANGED <<mounted, retries>>

StoreNext ==
    \/ CallSendPlayerInput \/ SendMessage \/ AgentOk \/ AgentFails
    \/ StreamOpen \/ StreamEvent \/ StreamClose \/ StreamError
    \/ CallStartWorldCreation \/ CallStartCharacterCreation
    \/ CallSendAgentMessage \/ CallPollForGameReady

StoreSpec == StoreInit /\ [][StoreNext]_vars

\* ------------------------------------------- character creation onwards
\* The session from the state that Spec reaches by Mount, CreateSessionOk,
\* OpeningOk, SendMessage("hello"), AgentOk (world complete) and OpeningOk:
\* character creation has begun and the store is idle.  The count of inputs
\* starts afresh here, so that MaxInputs inputs go to the character manager.
PollInit ==
    /\ sessionId = 1
    /\ gamePhase = "CHARACTER_CREATION"
    /\ isInitializing = FALSE
    /\ isReplying = FALSE
    /\ error = NoError
    /\ messages = <<[id |-> 1, text |-> WELCOME, sender |-> "DM"],
                    [id |-> 1, text |-> SYS_WORLD_START, sender |-> "System"],
                    [id |-> 2, text |-> <<"reply">>, sender |-> "DM"],
                    [id |-> 3, text |-> <<"hello">>, sender |-> "Player"],
                    [id |-> 4, text |-> <<"reply">>, sender |-> "DM"],
                    [id |-> 4, text |-> SYS_WORLD_DONE, sender |-> "System"],
                    [id |-> 4, text |-> SYS_CHAR_START, sender |-> "System"],
                    [id |-> 5, text |-> <<"reply">>, sender |-> "DM"]>>
    /\ worldState = {<<"name", "Eldoria">>}
    /\ characterState = {}
    /\ isWorldCreated = TRUE
    /\ isCharacterCreated = FALSE
    /\ calls = {}
    /\ nreq = 4
    /\ streams = <<>>
    /\ runs = <<>>
    /\ clock = 6
    /\ mounted = TRUE
    /\ inputs = 0
    /\ retries = 0

\* The streams that the ready branch opens are left connecting: what they
\* deliver does not bear on the poller.
PollNext ==
    \/ SendMessage \/ AgentOk \/ AgentFails
    \/ Elapse \/ PollTick \/ StatusReady \/ StatusNotReady \/ StatusFails \/ PollTimeout

PollSpec == PollInit /\ [][PollNext]_vars

\* ------------------------------------------------------------- claims
\* The agent dispatches and gameplay streams that have been issued and have
\* neither completed nor failed.
Dispatches == {c \in calls : c.op # "initializeSession"}
OpenStreams ==
    {k \in DOMAIN streams :
        streams[k].status \in {"connecting", "open"} /\ streams[k].dones = 0}
Outstanding == Cardinality(Dispatches) + Cardinality(OpenStreams)

\* C1: at most one phase-advancing network operation (agent dispatch or
\* gameplay stream) is outstanding at any time, and isReplying is true as long
\* as one is outstanding.
C1_BusyGate == Outstanding <= 1 /\ (Outstanding >= 1 => isReplying)

\* C2: a user input submitted through ChatWindow.sendMessage while isReplying
\* is true issues no network call, appends no Message and leaves gamePhase,
\* error, worldState and characterState unchanged.
C2_BusyInputIgnored ==
    [][(isReplying /\ SendMessage) =>
          UNCHANGED <<messages, gamePhase, error, worldState, characterState,
                      calls, nreq, streams, runs>>]_vars

\* C2 witness: the chat window is shown in a creation phase while a reply is
\* pending, so that an input submitted there is one the gate has to stop.
C2_Witness ==
    /\ ChatWindowShown /\ isReplying /\ inputs < MaxInputs
    /\ gamePhase \in {"WORLD_CREATION", "CHARACTER_CREATION"}
    /\ \E text \in UserTexts : sendMessage_NoBusyGate(World, text) # World

PhaseIndex(p) == CHOOSE i \in DOMAIN Phases : Phases[i] = p

\* C3: gamePhase starts at INIT and only ever changes along the edges
\* INIT -> WORLD_CREATION -> CHARACTER_CREATION -> GAMEPLAY -> GAME_OVER, one
\* edge at a time, never backwards, also when initializeSession is invoked
\* again from the retry button.
C3_PhaseEdges ==
    [][gamePhase' = gamePhase \/ PhaseIndex(gamePhase') = PhaseIndex(gamePhase) + 1]_vars

\* A sendAgentMessage to the character manager settles with is_complete.
CharacterComplete ==
    \E c \in calls, body \in AgentBodies :
        c.agent = "character-manager" /\ body.is_complete /\ AgentSettles(c, body)

\* C4: gamePhase becomes GAMEPLAY only by a readiness query that answered
\* ready_for_game = true inside pollForGameReady; a character-manager response
\* with is_complete = true leaves gamePhase as it is and starts the poller.
C4_GameplayOnlyWhenReady ==
    [][/\ (gamePhase' = "GAMEPLAY" /\ gamePhase # "GAMEPLAY") => StatusReady
       /\ CharacterComplete =>
              /\ gamePhase' = gamePhase
              /\ runs' = Append(runs, NewRun)
              /\ streams' = streams]_vars

\* C4 witness: the poller has been started by a complete character and a
\* ready answer has moved the session to GAMEPLAY.
C4_Witness ==
    /\ gamePhase = "GAMEPLAY" /\ isCharacterCreated
    /\ \E r \in DOMAIN runs : runs[r].log = <<"ready">>

\* A sendAgentMessage to the world builder, issued in WORLD_CREATION, settles.
WorldSettles(complete) ==
    \E c \in calls, body \in AgentBodies :
        /\ c.agent = "world-builder" /\ c.phase = "WORLD_CREATION"
        /\ body.is_complete = complete
        /\ AgentSettles(c, body)

\* C5: when a world-builder dispatch issued in WORLD_CREATION reports
\* is_complete = true, gamePhase becomes CHARACTER_CREATION and exactly one
\* opening dispatch to the character manager is issued, with no user input;
\* when it reports false, gamePhase is unchanged and no dispatch is issued.
C5_WorldCompletion ==
    [][/\ WorldSettles(TRUE) =>
              /\ gamePhase' = "CHARACTER_CREATION"
              /\ \E d \in calls' \ calls :
                     /\ calls' \ calls = {d}
                     /\ d.op = "startCharacterCreation"
                     /\ d.agent = "character-manager"
                     /\ d.input = CHAR_GREETING
              /\ inputs' = inputs
       /\ WorldSettles(FALSE) =>
              /\ gamePhase' = gamePhase
              /\ calls' \subseteq calls]_vars

\* C5 witness: the world has just been completed and the opening dispatch of
\* character creation is on its way.
C5_Witness ==
    /\ gamePhase = "CHARACTER_CREATION" /\ isWorldCreated
    /\ \E d \in calls : d.op = "startCharacterCreation"
    /\ messages[Len(messages)].text = SYS_CHAR_START

\* C6: when a gameplay turn completes and the backend reported that the game
\* has ended, gamePhase is GAME_OVER.
C6_GameOverRecorded ==
    \A k \in DOMAIN streams :
        (streams[k].dones > 0 /\ streams[k].is_game_over) => gamePhase = "GAME_OVER"

\* What a run has recorded, read off its log.
Ran(r, branch) == \E i \in DOMAIN runs[r].log : runs[r].log[i] = branch
Count(r, branch) == Cardinality({i \in DOMAIN runs[r].log : runs[r].log[i] = branch})
Later(r, first, second) ==
    \E i, j \in DOMAIN runs[r].log :
        i < j /\ runs[r].log[i] = first /\ runs[r].log[j] = second

\* C7: when a ready answer is handled in the very unit in which the timeout
\* callback of the same run fires, in either order, exactly one of the two
\* outcomes is recorded: the move to GAMEPLAY or the timeout error.
C7_ReadyOrTimeout ==
    \A r \in DOMAIN runs :
        (runs[r].readyAt = "timeout" /\ ~runs[r].timeout) =>
            /\ Ran(r, "ready") \/ Ran(r, "timeoutErr")
            /\ ~(Ran(r, "ready") /\ Ran(r, "timeoutErr"))

\* C8: within one run of pollForGameReady at most one terminal branch (ready
\* transition, query failure, timeout error) has its side effects, and the
\* ready branch runs at most once.
C8_OneTerminalBranch ==
    \A r \in DOMAIN runs :
        Count(r, "ready") + Count(r, "failed") + Count(r, "timeoutErr") <= 1

\* C9: if every readiness query of a run answered ready_for_game = false and
\* none failed, then once the timeout has fired with error unset, the timeout
\* error is recorded, gamePhase is still CHARACTER_CREATION and no readiness
\* query is issued afterwards.
C9_TimeoutRecorded ==
    \A r \in DOMAIN runs :
        (/\ ~runs[r].timeout /\ runs[r].timeoutClean
         /\ ~Ran(r, "ready") /\ ~Ran(r, "failed")) =>
            /\ Ran(r, "timeoutErr")
            /\ runs[r].timeoutPhase = "CHARACTER_CREATION"
            /\ ~Ran(r, "query")

\* C10: once a readiness query of a run has failed, the run has recorded the
\* 'cannot verify readiness' error, issues no further readiness query and
\* does not move the session to GAMEPLAY afterwards.
C10_QueryFailureAborts ==
    \A r \in DOMAIN runs :
        Ran(r, "failed") =>
            /\ ~Later(r, "failed", "query")
            /\ ~Later(r, "failed", "ready")

\* C11: at most one gameplay stream is open per session and at most one
\* timeline entry is open for streaming: sendPlayerInput is never started
\* while an earlier stream has neither completed nor failed.
C11_OneOpenStream ==
    /\ \A j, k \in OpenStreams :
           j # k => streams[j].session # streams[k].session
    /\ Cardinality({streams[k].msg : k \in OpenStreams}) <= 1

\* C12: once a gameplay stream has delivered [DONE], the text of the turn's DM
\* entry is the concatenation, in order, of the payloads delivered before the
\* first [DONE], whatever is delivered afterwards, and completion (onDone) has
\* been signalled exactly once.
C12_StreamText ==
    \A k \in DOMAIN streams :
        streams[k].dones > 0 =>
            /\ streams[k].dones = 1
            /\ messages[streams[k].msg].text = streams[k].before

\* Nothing is pending: no request awaits its response, no stream is
\* connecting or open, and every timer of every poller run is spent.  With
\* error unset no handler but the controller's can run from here, and that
\* one ignores input while isReplying.
Quiescent ==
    /\ calls = {}
    /\ \A k \in DOMAIN streams : streams[k].status \notin {"connecting", "open"}
    /\ \A r \in DOMAIN runs :
           ~runs[r].interval /\ ~runs[r].timeout /\ runs[r].inflight = 0

\* C13: a gameplay stream that ended cleanly before any [DONE] counts as
\* completed: no error is recorded for it, and isReplying becomes false, at
\* the latest when nothing is left that could still clear it.
C13_CleanCloseCompletes ==
    \A k \in DOMAIN streams :
        (/\ streams[k].status = "closed" /\ streams[k].dones = 0
         /\ Quiescent /\ error = NoError) => ~isReplying

\* Stream k fails in this step: at its opening or in mid-stream.
StreamFails(k) ==
    /\ k \in DOMAIN streams
    /\ streams[k].status \in {"connecting", "open"}
    /\ streams'[k].status = "failed"

\* C14: when a gameplay stream fails, because its opening is refused (status
\* not ok or content type not text/event-stream) or in mid-stream, error is
\* set, isReplying becomes false, no new request is made, and the timeline
\* with the text already appended to the turn's DM entry stays as it is, in
\* this step and in every later one.
C14_StreamFailure ==
    [][/\ \A k \in DOMAIN streams :
              StreamFails(k) =>
                  /\ error' # NoError
                  /\ ~isReplying'
                  /\ nreq' = nreq /\ calls' = calls
                  /\ Len(streams') = Len(streams)
                  /\ messages' = messages
       /\ \A k \in DOMAIN streams :
              streams[k].status = "failed" =>
                  /\ streams'[k] = streams[k]
                  /\ messages'[streams[k].msg] = messages[streams[k].msg]]_vars

\* C14 witness: a stream has failed in mid-stream after narration had been
\* appended to its entry, which is still there, and the failure is reported.
C14_Witness ==
    \E k \in DOMAIN streams :
        /\ streams[k].status = "failed" /\ streams[k].events > 0
        /\ messages[streams[k].msg].text # <<>>
        /\ error = FETCH_FAILED /\ ~isReplying

\* s is a prefix of t
IsPrefix(s, t) == Len(s) <= Len(t) /\ SubSeq(t, 1, Len(s)) = s

\* Entry i belongs to a stream that has neither completed nor failed.
OpenForStreaming(i) ==
    \E k \in DOMAIN streams :
        /\ streams[k].msg = i
        /\ streams[k].status = "open" /\ streams[k].dones = 0

\* C15: the timeline is append-only: no step removes or reorders an entry or
\* changes an entry's id or sender, and the text of an entry changes only by
\* growing at its end while the entry is open for streaming; once its stream
\* has completed or failed, the text never changes again.
C15_AppendOnly ==
    [][/\ Len(messages') >= Len(messages)
       /\ \A i \in DOMAIN messages :
              /\ messages'[i].id = messages[i].id
              /\ messages'[i].sender = messages[i].sender
              /\ \/ messages'[i].text = messages[i].text
                 \/ /\ OpenForStreaming(i)
                    /\ IsPrefix(messages[i].text, messages'[i].text)]_vars

\* The controller forwards text to sendAgentMessage in this step.
Forwards(text) ==
    /\ SendMessage
    /\ nreq' # nreq
    /\ \E c \in calls' \ calls : c.input = text

\* C16: sendAgentMessage(userInput, agentType) appends the Player entry with
\* userInput when it is called; when its dispatch succeeds it appends a DM
\* entry with the response's text next and replaces worldState (world-builder)
\* or characterState (character-manager) by updated_state, leaving the other
\* one alone; with is_complete false that DM entry is the only one the step
\* appends and gamePhase is unchanged.
C16_AgentSuccess ==
    [][/\ \A text \in UserTexts :
              Forwards(text) =>
                  /\ messages' = Append(messages, [id |-> clock, text |-> text,
                                                   sender |-> "Player"])
                  /\ \E c \in calls' \ calls :
                         /\ calls' = calls \cup {c}
                         /\ c.op = "sendAgentMessage"
                         /\ c.entry = Len(messages')
       /\ \A c \in calls, body \in AgentBodies :
              AgentSettles(c, body) =>
                  /\ IsPrefix(Append(messages, [id |-> clock, text |-> body.response,
                                                sender |-> "DM"]), messages')
                  /\ c.agent = "world-builder" =>
                         /\ worldState' = body.updated_state
                         /\ characterState' = characterState
                  /\ c.agent = "character-manager" =>
                         /\ characterState' = body.updated_state
                         /\ worldState' = worldState
                  /\ ~body.is_complete =>
                         /\ Len(messages') = Len(messages) + 1
                         /\ gamePhase' = gamePhase
                         /\ calls' = calls \ {c}]_vars

\* C16 witness: two inputs went to the world builder in one session; the
\* first answer left {geography: forest} in worldState, the second replaced
\* it.
C16_Witness ==
    /\ retries = 0 /\ error = NoError /\ calls = {}
    /\ Cardinality({i \in DOMAIN messages : messages[i].sender = "Player"}) = 2
    /\ characterState = {}
    /\ worldState = {<<"name", "Eldoria">>}

\* C17: when the dispatch of a sendAgentMessage fails (rejected fetch or
\* non-success status), no entry is appended for it, error is set, gamePhase
\* has the value it had when the dispatch was issued, worldState and
\* characterState are unchanged and isReplying is false.
C17_AgentFailure ==
    [][\A c \in calls, f \in Failures :
           AgentRejects(c, f) =>
               /\ messages' = messages
               /\ error' # NoError
               /\ gamePhase' = c.phase
               /\ worldState' = worldState /\ characterState' = characterState
               /\ ~isReplying']_vars

\* C18: the Player entry of a user input is appended before the request is
\* issued, so when the dispatch of a sendAgentMessage fails the timeline still
\* ends with that Player entry.
C18_PlayerEntryFirst ==
    [][\A c \in calls, f \in Failures :
           AgentRejects(c, f) =>
               /\ Len(messages') = c.entry
               /\ messages'[c.entry].sender = "Player"
               /\ messages'[c.entry].text = c.input]_vars

\* C19: in every phase other than GAMEPLAY a call of the gameplay-turn
\* operation sendPlayerInput is rejected or ignored: it appends no Message
\* and makes no request to /game/play/stream.
C19_GameplayTurnOnlyInGameplay ==
    [][(gamePhase # "GAMEPLAY" /\ CallSendPlayerInput) =>
           /\ messages' = messages
           /\ streams' = streams
           /\ nreq' = nreq]_vars

\* C20: an agent dispatch triggered by user input goes to the agent of the
\* current phase: to world-builder only in WORLD_CREATION, to
\* character-manager only in CHARACTER_CREATION; user input submitted in INIT
\* or GAME_OVER makes no network call and appends no Message.
C20_AgentOfPhase ==
    [][SendMessage =>
           /\ \A c \in calls' \ calls :
                  /\ c.op = "sendAgentMessage"
                  /\ \/ c.agent = "world-builder" /\ gamePhase = "WORLD_CREATION"
                     \/ c.agent = "character-manager"
                            /\ gamePhase = "CHARACTER_CREATION"
           /\ gamePhase \in {"INIT", "GAME_OVER"} =>
                  UNCHANGED <<messages, calls, nreq, streams>>]_vars

\* C20 witness: an input went to the world builder in WORLD_CREATION and
\* completed the world, and the next input is on its way to the character
\* manager in CHARACTER_CREATION.
C20_Witness ==
    /\ gamePhase = "CHARACTER_CREATION" /\ isWorldCreated
    /\ \E i \in DOMAIN messages :
           messages[i].sender = "Player" /\ i < Len(messages) - 1
    /\ \E c \in calls :
           /\ c.op = "sendAgentMessage" /\ c.agent = "character-manager"
           /\ c.phase = "CHARACTER_CREATION"
           /\ messages[c.entry] = [id |-> messages[c.entry].id, text |-> c.input,
                                   sender |-> "Player"]

\* A component calls one of the five guarded actions of the store.
CallsGuarded ==
    \/ CallStartWorldCreation \/ CallStartCharacterCreation
    \/ CallSendAgentMessage \/ CallSendPlayerInput \/ CallPollForGameReady

\* C21: while sessionId is not set, startWorldCreation,
\* startCharacterCreation, sendAgentMessage, sendPlayerInput and
\* pollForGameReady are silent no-ops: no network call, no timer, no Message,
\* and gamePhase, isReplying and error are left as they are.
C21_NoSessionNoOp ==
    [][(sessionId = NoSession /\ CallsGuarded) =>
           UNCHANGED <<store, calls, nreq, streams, runs>>]_vars

\* C21 witness: the guarded actions have been called without a session and
\* nothing has happened.
C21_Witness ==
    /\ sessionId = NoSession /\ inputs = MaxInputs
    /\ messages = <<>> /\ nreq = 0 /\ runs = <<>> /\ ~isReplying
    /\ gamePhase = "INIT" /\ error = NoError

\* C22: sessionId is immutable once set: no step changes it after the first
\* successful createSession, also when initializeSession runs again from the
\* retry button.
C22_SessionIdImmutable ==
    [][sessionId # NoSession => sessionId' = sessionId]_vars

\* The entries a step appends to the timeline.
Appended == SubSeq(messages', Len(messages) + 1, Len(messages'))
PlayerEntries(es) == {i \in DOMAIN es : es[i].sender = "Player"}

\* C23: a gameplay turn sends its input as user_input of the stream request;
\* for the trigger literal of the synthetic opening turn no Player entry is
\* appended, for every other input exactly one Player entry with that text is
\* appended, right before the turn's DM entry.
C23_TriggerSuppressed ==
    [][Len(streams') = Len(streams) + 1 =>
           LET turn == streams'[Len(streams')]
           IN  /\ turn.msg = Len(messages')
               /\ messages'[turn.msg] = [id |-> clock, text |-> <<>>, sender |-> "DM"]
               /\ IF turn.input = START_TRIGGER
                  THEN PlayerEntries(Appended) = {}
                  ELSE /\ PlayerEntries(Appended) = {Len(Appended) - 1}
                       /\ Appended[Len(Appended) - 1].text = turn.input]_vars

\* C23 witness: one turn was started with the trigger and has no Player entry
\* before its DM entry, another was started with a user's text and has it.
C23_Witness ==
    \E j, k \in DOMAIN streams :
        /\ streams[j].input = START_TRIGGER
        /\ messages[streams[j].msg - 1].sender # "Player"
        /\ streams[k].input = <<"hello">>
        /\ messages[streams[k].msg - 1] =
               [id |-> messages[streams[k].msg].id, text |-> <<"hello">>,
                sender |-> "Player"]

\* C24: every successful world-builder response during WORLD_CREATION
\* replaces worldState, and every successful character-manager response
\* during CHARACTER_CREATION replaces characterState, by the response's
\* updated_state, the responses to the opening dispatches of
\* startWorldCreation and startCharacterCreation included.
C24_StateReplaced ==
    [][\A c \in calls, body \in AgentBodies :
           (AgentSettles(c, body) \/ OpeningSettles(c, body)) =>
               /\ (c.agent = "world-builder" /\ gamePhase = "WORLD_CREATION") =>
                      worldState' = body.updated_state
               /\ (c.agent = "character-manager"
                       /\ gamePhase = "CHARACTER_CREATION") =>
                      characterState' = body.updated_state]_vars

\* A timer callback of run r runs in this step: the setTimeout callback, or
\* the setInterval callback.
TimeoutFires(r) == runs[r].timeout /\ ~runs'[r].timeout
IntervalFires(r) == PollTick /\ IntervalDue(r) /\ ~runs'[r].due

\* C25: the two timers of a poller run are cancelled together by a terminal
\* branch: once the ready branch or the query-failure branch of a run has
\* run, no later callback of that run's timers changes error, gamePhase or
\* the timeline, also when initializeSession was invoked again meanwhile.
C25_TimersCancelledTogether ==
    [][\A r \in DOMAIN runs :
           ((Ran(r, "ready") \/ Ran(r, "failed"))
                /\ (TimeoutFires(r) \/ IntervalFires(r))) =>
               /\ error' = error
               /\ gamePhase' = gamePhase
               /\ messages' = messages]_vars

\* C26: once the readiness-timeout error is recorded it is not overwritten
\* by a later failure (of an agent dispatch, a stream or a readiness query);
\* only initializeSession, which the user starts, clears it.
C26_TimeoutErrorKept ==
    [][error = ERR_TIMEOUT => error' \in {ERR_TIMEOUT, NoError}]_vars

\* A response with a non-success status.
HttpFailures == {f \in Failures : f.kind = "http"}

\* what the claim expects in error after failure f of a request
Surfaced(f) == IF f.detail # "" THEN f.detail ELSE error'

\* C27: for every non-success HTTP response to session creation, to an agent
\* dispatch or to the readiness query, error is the response's detail when it
\* has one, and a generic fallback message otherwise.
C27_DetailSurfaced ==
    [][\A f \in HttpFailures :
           /\ \A c \in calls :
                  (CreateSessionRejects(c, f) \/ OpeningRejects(c, f)
                       \/ AgentRejects(c, f)) =>
                      /\ error' = Surfaced(f)
                      /\ error' \notin {NoError, ""}
           /\ \A r \in DOMAIN runs :
                  StatusRejects(r, f) =>
                      /\ error' = Surfaced(f)
                      /\ error' \notin {NoError, ""}]_vars

\* C28: message ids are unique within the timeline, also for entries
\* appended back to back in one synchronous step while Date.now() has not
\* advanced.
C28_UniqueIds ==
    \A i, j \in DOMAIN messages : i # j => messages[i].id # messages[j].id

\* C29: in each working phase an input the controller consumes (non-empty,
\* isReplying false) is forwarded: to world-builder in WORLD_CREATION, to
\* character-manager in CHARACTER_CREATION, as a streamed gameplay turn in
\* GAMEPLAY.  Stated on the states in which the chat window is shown: what
\* sendMessage would do with each text there.
C29_InputForwarded ==
    \A text \in UserTexts :
        (ChatWindowShown /\ sendMessageConsumes(World, text)) =>
            LET w == sendMessage(World, text)
            IN  /\ gamePhase = "WORLD_CREATION" =>
                       \E c \in w.calls \ calls :
                           c.agent = "world-builder" /\ c.input = text
                /\ gamePhase = "CHARACTER_CREATION" =>
                       \E c \in w.calls \ calls :
                           c.agent = "character-manager" /\ c.input = text
                /\ gamePhase = "GAMEPLAY" =>
                       /\ Len(w.streams) = Len(streams) + 1
                       /\ w.streams[Len(w.streams)].input = text

\* The poller runs that can still act: the interval is registered or a query
\* awaits its response.
ActiveRuns == {r \in DOMAIN runs : runs[r].interval \/ runs[r].inflight > 0}
OpeningTurns == {k \in DOMAIN streams : streams[k].input = START_TRIGGER}

\* C30: over the life of a session at most one readiness poller run is
\* active at a time and the synthetic opening gameplay turn is issued at most
\* once, also when the user keeps submitting character-manager input after a
\* response with is_complete = true and a later response is complete again.
C30_OnePollerOneOpening ==
    /\ Cardinality(ActiveRuns) <= 1
    /\ Cardinality(OpeningTurns) <= 1

\* C31: every poller run terminates: whatever the backend answers and
\* whatever other runs do, once the timeout of a run has fired and its
\* queries in flight have settled, its interval is no longer registered, so
\* that it issues no further readiness query.
C31_PollerTerminates ==
    \A r \in DOMAIN runs :
        (~runs[r].timeout /\ runs[r].inflight = 0) => ~runs[r].interval

\* C32: in every reachable state isCharacterCreated implies isWorldCreated,
\* a gamePhase of CHARACTER_CREATION, GAMEPLAY or GAME_OVER implies
\* isWorldCreated, and a gamePhase of GAMEPLAY or GAME_OVER implies
\* isCharacterCreated; no step resets either flag to false.
C32_CreationFlags ==
    /\ [](/\ isCharacterCreated => isWorldCreated
          /\ gamePhase \in {"CHARACTER_CREATION", "GAMEPLAY", "GAME_OVER"} =>
                 isWorldCreated
          /\ gamePhase \in {"GAMEPLAY", "GAME_OVER"} => isCharacterCreated)
    /\ [][/\ isWorldCreated => isWorldCreated'
          /\ isCharacterCreated => isCharacterCreated']_vars

\* C32 witness: both creations were completed, a failure was reported, and the
\* retried initializeSession has put the session back into WORLD_CREATION with
\* both flags still set.
C32_Witness ==
    /\ retries = 1
    /\ gamePhase = "WORLD_CREATION"
    /\ isWorldCreated /\ isCharacterCreated

DmEntries(es) == {i \in DOMAIN es : es[i].sender = "DM"}

\* C33: a gameplay turn started by sendPlayerInput with a session id appends
\* exactly one DM entry, with empty text, in the step that starts the turn
\* and before any event of its stream; the entry belongs to that turn alone,
\* stays in the timeline whatever becomes of the stream, and is still empty
\* as long as no event was delivered, hence after a failed opening.
C33_DmEntryAtStart ==
    /\ [](\A k \in DOMAIN streams :
              /\ streams[k].msg \in DOMAIN messages
              /\ messages[streams[k].msg].sender = "DM"
              /\ streams[k].events = 0 => messages[streams[k].msg].text = <<>>
              /\ \A j \in DOMAIN streams : j # k => streams[j].msg # streams[k].msg)
    /\ [][Len(streams') = Len(streams) + 1 =>
              LET turn == streams'[Len(streams')]
              IN  /\ sessionId # NoSession
                  /\ DmEntries(Appended) = {Len(Appended)}
                  /\ Appended[Len(Appended)].text = <<>>
                  /\ turn.status = "connecting" /\ turn.events = 0]_vars

\* C33 witness: the opening of a stream was refused and the turn's DM entry
\* is in the timeline with empty text.
C33_Witness ==
    \E k \in DOMAIN streams :
        /\ streams[k].status = "failed" /\ streams[k].events = 0
        /\ error = STREAM_CONNECT
        /\ messages[streams[k].msg].sender = "DM"
        /\ messages[streams[k].msg].text = <<>>

\* C34: when createSession fails, initializeSession sets error, clears
\* isInitializing, leaves sessionId and gamePhase as they were (null and INIT
\* on the first attempt), appends no entry and issues no request; when it
\* succeeds, the timeline gains the DM welcome entry and then the System
\* world-creation notice, gamePhase is WORLD_CREATION, and exactly one
\* opening world-builder dispatch is issued.
C34_InitializeOutcome ==
    [][/\ \A c \in calls, f \in Failures :
              CreateSessionRejects(c, f) =>
                  /\ error' # NoError
                  /\ ~isInitializing'
                  /\ sessionId' = sessionId /\ gamePhase' = gamePhase
                  /\ retries = 0 => (sessionId' = NoSession /\ gamePhase' = "INIT")
                  /\ messages' = messages
                  /\ calls' = calls \ {c} /\ nreq' = nreq
                  /\ streams' = streams
       /\ CreateSessionOk =>
              /\ sessionId' # NoSession
              /\ ~isInitializing'
              /\ gamePhase' = "WORLD_CREATION"
              /\ Len(Appended) = 2
              /\ Appended[1].text = WELCOME /\ Appended[1].sender = "DM"
              /\ Appended[2].text = SYS_WORLD_START /\ Appended[2].sender = "System"
              /\ nreq' = nreq + 1
              /\ streams' = streams
              /\ \E d \in calls' :
                     /\ calls' \ calls = {d}
                     /\ d.op = "startWorldCreation"
                     /\ d.agent = "world-builder"
                     /\ d.input = WORLD_GREETING]_vars

\* C34 witness: the first attempt failed and left nothing behind, the retried
\* one succeeded: session 1 has the two opening entries and the opening
\* world-builder dispatch is in flight.
C34_Witness ==
    /\ retries = 1 /\ sessionId = 1
    /\ Len(messages) = 2
    /\ gamePhase = "WORLD_CREATION"
    /\ \E d \in calls : d.op = "startWorldCreation"

\* C35: error is reset to null only by initializeSession: a step that takes
\* error from a failure's value to null is the mount or the retry that
\* invokes initializeSession; no settled dispatch, stream event or readiness
\* answer does it.
C35_ErrorClearedOnlyByInit ==
    [][(error # NoError /\ error' = NoError) => (Mount \/ Retry)]_vars

\* C35 witness: the readiness timeout was reported, then a readiness query
\* succeeded and the opening turn's stream completed, and the error is still
\* there.
C35_Witness ==
    /\ error = ERR_TIMEOUT
    /\ gamePhase = "GAMEPLAY"
    /\ \E k \in DOMAIN streams : streams[k].dones > 0

\* C36: a world-builder dispatch never changes characterState, a
\* character-manager dispatch never changes worldState, and every other step
\* (gameplay turns, readiness polling, failed dispatches, the opening
\* dispatches' neighbours) changes neither.
C36_StateFrame ==
    [][/\ \A c \in calls, body \in AgentBodies :
              (AgentSettles(c, body) \/ OpeningSettles(c, body)) =>
                  /\ c.agent = "world-builder" => characterState' = characterState
                  /\ c.agent = "character-manager" => worldState' = worldState
       /\ ~AgentOk => (worldState' = worldState /\ characterState' = characterState)]_vars

\* C36 witness: the world was completed and a character-manager response
\* has since replaced characterState, while worldState is what the
\* world-builder left.
C36_Witness ==
    /\ worldState = {<<"name", "Eldoria">>}
    /\ characterState = {<<"geography", "forest">>}
    /\ gamePhase = "CHARACTER_CREATION"

====
